---- MODULE Spec2Model ----
(***************************************************************************)
(* Model of the LinkedIn spider (linkeninScraper/spiders/linkedinspider.py) *)
(* as a state machine: the spider's callbacks (parse_search, parse_profile, *)
(* errback, on_spider_closed) run on one reactor thread; the engine keeps a *)
(* queue of pending requests and at most CONCURRENT_REQUESTS downloads in   *)
(* flight; the render backend answers every download with a rendered        *)
(* document or with a failure.                                              *)
(***************************************************************************)
EXTENDS Integers, Sequences, FiniteSets, TLC

(***************************************************************************)
(* Bounds of the model.                                                     *)
(***************************************************************************)
\* result entries on one rendered search page
MaxEntries == 3
\* result entries on a search page rendered within a run
MaxRunEntries == 2
\* attempt counts the retry decision is evaluated on
MaxAttemptCount == 6
\* detail requests pending when the search page has been parsed
MaxPending == 2
\* requests created in one run (the seed included); retries are copies, not new requests
MaxRequests == 3
\* result pages of the finite feed
FeedPages == 3
\* education entries on one rendered detail page
MaxEducations == 2
\* requests created in one run over the finite feed
MaxFeedRequests == FeedPages + 3

(***************************************************************************)
(* Program constants.                                                       *)
(***************************************************************************)
CONCURRENT_REQUESTS == 6

\* Python's None, where a variable holds it
None == [none |-> TRUE]

\* URLs as origin and path, so that joining a link to a base is computed
search_url ==
    [origin |-> "https://www.linkedin.com",
     path |-> "/search/results/people/?keywords=France&origin=GLOBAL_SEARCH_HEADER"]

\* hrefs a result entry's a.app-aware-link can carry: empty, relative, absolute
Hrefs ==
    {[origin |-> "", path |-> ""],
     [origin |-> "", path |-> "/in/a"],
     [origin |-> "https://fr.linkedin.com", path |-> "/in/b"]}

\* what entry.css("a.app-aware-link::attr(href)") can match in one entry:
\* no anchor, or one anchor with its href
LinkMatches == {<<>>} \cup {<<h>> : h \in Hrefs}

RECURSIVE SeqsUpTo(_, _)
SeqsUpTo(S, n) ==
    IF n = 0 THEN {<<>>}
    ELSE LET shorter == SeqsUpTo(S, n - 1)
         IN  shorter \cup {Append(s, x) : s \in {t \in shorter : Len(t) = n - 1}, x \in S}

\* the rendered search documents: the entries in document order, each with
\* what its link selector matches, and the state of the Next button
SearchDocs ==
    [entries : SeqsUpTo(LinkMatches, MaxEntries),
     next_button : {"absent", "enabled", "disabled"}]

\* the search documents rendered within a run: entries without an anchor and
\* entries with a relative link, and the three states of the Next button
RunSearchDocs ==
    [entries : SeqsUpTo({<<>>, <<[origin |-> "", path |-> "/in/a"]>>}, MaxRunEntries),
     next_button : {"absent", "enabled", "disabled"}]

\* texts as sequences of characters, so that strip() and `in` are computed
France == <<"F", "r", "a", "n", "c", "e">>

\* the characters str.strip() removes
Whitespace == {" ", "\t", "\n"}

\* what the ::text selectors of parse_profile can match: nothing, or one text
NameMatches == {<<>>, <<<<" ", "A", "d", "a", " ">>>>, <<<<" ">>>>}
HeadlineMatches == {<<>>, <<<<"D", "r">>>>}
LocationMatches == {<<>>, <<<<"\n", "L", "y", "o", "n">>>>}
PositionMatches == {<<>>, <<<<"C", "T", "O">>>>}
SchoolMatches ==
    {<<>>,
     <<<<" ", "M", "I", "T", "\n">>>>,
     <<<<"X", ",", " ">> \o France>>,
     <<<<"f", "r", "a", "n", "c", "e">>>>}
DegreeMatches == {<<>>, <<<<"M", "S", "c", " ">> \o France>>}
PeriodMatches ==
    {<<>>,
     <<<<"1", "5", "-", "1", "9">>>>,
     <<<<"1", "5", " ">> \o France \o <<"s", " ">>>>}

\* section.pv-skill-categories-section ... ::text, getall(): every match
SkillTexts == <<<<" ", "G", "o">>, <<"C">>, <<"G", "o", "\n">>>>

\* one li.education__list-item: what its three selectors match
EducationEntries ==
    [school : SchoolMatches, degree : DegreeMatches, period : PeriodMatches]

\* an education entry of a school in France
SchoolInFrance ==
    [school |-> <<<<"X", ",", " ">> \o France>>, degree |-> <<>>,
     period |-> <<<<"1", "5", "-", "1", "9">>>>]

\* the detail page on which no selector of parse_profile matches
NoAnchorsDoc ==
    [name |-> <<>>, headline |-> <<>>, location |-> <<>>,
     current_position |-> <<>>, educations |-> <<>>, skills |-> <<>>]

\* a detail page on which every selector of parse_profile matches
AllAnchorsDoc ==
    [name |-> <<<<" ", "A", "d", "a", " ">>>>, headline |-> <<<<"D", "r">>>>,
     location |-> <<<<"\n", "L", "y", "o", "n">>>>,
     current_position |-> <<<<"C", "T", "O">>>>,
     educations |-> <<SchoolInFrance>>, skills |-> SkillTexts]

\* the rendered detail documents of a run
DetailDocs == {NoAnchorsDoc, AllAnchorsDoc}

\* the rendered detail documents extraction is checked on: every choice of
\* matching and non-matching selectors, and every education section of up to
\* MaxEducations entries
ExtractDocs ==
    [name : NameMatches, headline : HeadlineMatches, location : LocationMatches,
     current_position : PositionMatches,
     educations : {<<>>, <<SchoolInFrance>>}, skills : {<<>>, SkillTexts}]
    \cup
    [name : {AllAnchorsDoc.name}, headline : {AllAnchorsDoc.headline},
     location : {AllAnchorsDoc.location},
     current_position : {AllAnchorsDoc.current_position},
     educations : SeqsUpTo(EducationEntries, MaxEducations),
     skills : {SkillTexts}]

\* the numbers of the requests of a run
Max(a, b) == IF a > b THEN a ELSE b

Ids == 1..Max(Max(MaxRequests, MaxPending + 1), MaxFeedRequests)

VARIABLES
    queue,            \* the engine's pending requests, in enqueue order
    inflight,         \* requests handed to the download handler
    sleeping,         \* None, or the errback call blocked in time.sleep
    total_profiles,   \* self.total_profiles
    items,            \* the profiles yielded to the item pipeline
    giveup_warnings,  \* number of "[giveup]" warnings logged
    closed,           \* on_spider_closed has run
    close_spider,     \* on_spider_closed raised CloseSpider
    exited,           \* the SIGINT handler called sys.exit(0)
    created,          \* history: the requests the callbacks yielded, by number
    submits,          \* history: downloads started, per request number
    delays,           \* history: backoffs slept, per request number
    fails,            \* history: download failures, per request number
    lastParse         \* history: the last parse_search call, document and output

vars == <<queue, inflight, sleeping, total_profiles, items, giveup_warnings,
          closed, close_spider, exited, created, submits, delays, fails, lastParse>>

(***************************************************************************)
(* The spider's code as operators.                                          *)
(***************************************************************************)
\* selector.get() is the first match, None without a match; `if value:` is
\* false for None and for the empty string
Truthy(matches) == matches # <<>> /\ Head(matches) # ""

\* the same for an href, which the model holds as origin and path
TruthyLink(matches) ==
    matches # <<>> /\ Head(matches) # [origin |-> "", path |-> ""]

\* str.strip(): the text without its leading and trailing whitespace
RECURSIVE LStrip(_)
LStrip(text) ==
    IF text # <<>> /\ Head(text) \in Whitespace THEN LStrip(Tail(text)) ELSE text

RECURSIVE RStrip(_)
RStrip(text) ==
    IF text # <<>> /\ text[Len(text)] \in Whitespace
    THEN RStrip(SubSeq(text, 1, Len(text) - 1))
    ELSE text

Strip(text) == RStrip(LStrip(text))

\* a default that is a placeholder text instead of the empty string
GetStripOrPlaceholder(matches) ==
    IF matches = <<>> THEN <<"N", "/", "A">> ELSE Strip(Head(matches))

\* selector.get(default="").strip(): the empty text without a match
GetStrip(matches) == IF matches = <<>> THEN <<>> ELSE Strip(Head(matches))

\* text.startswith(sub)
StartsWith(text, sub) ==
    Len(sub) <= Len(text) /\ SubSeq(text, 1, Len(sub)) = sub

\* sub in text: a scan of the text for an occurrence of sub
RECURSIVE In(_, _)
In(sub, text) ==
    \/ StartsWith(text, sub)
    \/ text # <<>> /\ In(sub, Tail(text))

\* dict.get(key, default)
MetaGet(meta, key, default) == IF key \in DOMAIN meta THEN meta[key] ELSE default

\* scrapy.Request(url, meta=..., callback=..., errback=self.errback)
Request(url, callback, meta) ==
    [url |-> url, callback |-> callback, errback |-> "errback", meta |-> meta]

\* response.follow(link): the link resolved against the response's URL
urljoin(base, href) ==
    IF href.origin # "" THEN href ELSE [origin |-> base.origin, path |-> href.path]

start_requests ==
    <<Request(search_url, "parse_search",
              [playwright |-> TRUE,
               playwright_page_methods |->
                   <<<<"wait_for_selector", "ul.reusable-search__result-list">>>>,
               playwright_context |-> "default"])>>

\* a loop that stops at the first entry without a link instead of skipping it
RECURSIVE ProfileRequestsUntilGap(_, _)
ProfileRequestsUntilGap(url, entries) ==
    IF entries = <<>> \/ ~TruthyLink(Head(entries)) THEN <<>>
    ELSE <<Request(urljoin(url, Head(Head(entries))), "parse_profile",
                   [playwright |-> TRUE])>>
             \o ProfileRequestsUntilGap(url, Tail(entries))

\* the loop over the result entries: one profile request per entry with a link
RECURSIVE ProfileRequests(_, _)
ProfileRequests(url, entries) ==
    IF entries = <<>> THEN <<>>
    ELSE LET profile_link == Head(entries)
             rest == ProfileRequests(url, Tail(entries))
         IN  IF TruthyLink(profile_link)
             THEN <<Request(urljoin(url, Head(profile_link)), "parse_profile",
                            [playwright |-> TRUE])>> \o rest
             ELSE rest

\* sel.css("button[aria-label='Next']"): the selector matches on the label
\* alone, so it matches a disabled button as well
NextButton(doc) ==
    IF doc.next_button = "absent" THEN <<>>
    ELSE IF doc.next_button = "disabled"
         THEN <<"<button aria-label='Next' disabled>">>
         ELSE <<"<button aria-label='Next'>">>

\* a pagination that takes a page without detail requests for the last page
AdvanceRequestsIfResults(url, doc) ==
    IF Truthy(NextButton(doc)) /\ \E k \in 1..Len(doc.entries) : TruthyLink(doc.entries[k])
    THEN <<Request(url, "parse_search",
                   [playwright |-> TRUE,
                    playwright_page_methods |->
                        <<<<"click", "button[aria-label='Next']">>,
                          <<"wait_for_selector", "ul.reusable-search__result-list">>>>])>>
    ELSE <<>>

\* the pagination request
AdvanceRequests(url, doc) ==
    IF Truthy(NextButton(doc))
    THEN <<Request(url, "parse_search",
                   [playwright |-> TRUE,
                    playwright_page_methods |->
                        <<<<"click", "button[aria-label='Next']">>,
                          <<"wait_for_selector", "ul.reusable-search__result-list">>>>])>>
    ELSE <<>>

\* a parse_search that paginates before it walks the result entries
parse_search_advance_first(response) ==
    AdvanceRequests(response.url, response.doc)
        \o ProfileRequests(response.url, response.doc.entries)

\* everything parse_search yields, in order
parse_search(response) ==
    ProfileRequests(response.url, response.doc.entries)
        \o AdvanceRequests(response.url, response.doc)

\* a filter that consults every text of the entry, the degree included
InFranceByAnyText(school, degree, period) ==
    In(France, school) \/ In(France, degree) \/ In(France, period)

\* "France" in school or "France" in period
InFrance(school, degree, period) == In(France, school) \/ In(France, period)

\* the loop over the education entries
RECURSIVE educations_in_france(_)
educations_in_france(edus) ==
    IF edus = <<>> THEN <<>>
    ELSE LET edu == Head(edus)
             school == GetStrip(edu.school)
             degree == GetStrip(edu.degree)
             period == GetStrip(edu.period)
             rest == educations_in_france(Tail(edus))
         IN  IF InFrance(school, degree, period)
             THEN <<[school |-> school, degree |-> degree, period |-> period]>>
                      \o rest
             ELSE rest

\* the LinkedInProfile parse_profile builds; scraped_at, the reading of the
\* clock when the record is built, is left out
parse_profile(response) ==
    LET sel == response.doc
    IN  [name |-> GetStrip(sel.name),
         headline |-> GetStrip(sel.headline),
         location |-> GetStrip(sel.location),
         current_position |-> GetStrip(sel.current_position),
         educations_in_france |-> educations_in_france(sel.educations),
         skills |-> [k \in 1..Len(sel.skills) |-> Strip(sel.skills[k])],
         profile_url |-> response.url]

\* an assignment where the increment is meant
ScrapedOnce(total) == 1

\* a count of two for one profile
ScrapedTwice(total) == total + 2

\* self.total_profiles += 1
Scraped(total) == total + 1

\* errback: the retry decision, the backoff and the retried copy
retry_times(request) == MetaGet(request.meta, "retry_times", 0)

\* a retry bound off by one
ShouldRetryOnceMore(retries) == retries <= 3

ShouldRetry(retries) == retries < 3

\* a backoff that doubles the attempt count instead of exponentiating
BackoffLinear(retries) == 2 * retries

Backoff(retries) == 2 ^ retries

\* a copy built with a fresh meta that holds the attempt count only
RetryCopyFreshMeta(request, retries) ==
    [request EXCEPT !.meta = [retry_times |-> retries + 1]]

\* req = request.copy(); req.meta['retry_times'] = retries + 1
RetryCopy(request, retries) ==
    [request EXCEPT !.meta =
        [k \in DOMAIN request.meta \cup {"retry_times"} |->
            IF k = "retry_times" THEN retries + 1 ELSE request.meta[k]]]

\* a test that no count satisfies
RaisesCloseSpiderBelowZero(total) == total < 0

\* on_spider_closed raises CloseSpider
RaisesCloseSpider(total) == total = 0

(***************************************************************************)
(* The run.                                                                 *)
(***************************************************************************)
\* a request in the engine, with its number: a retried copy keeps the number
Entry(i, request) == [id |-> i, request |-> request]

\* requests yielded by one callback, numbered from i on, in yield order
Numbered(i, out) == [k \in 1..Len(out) |-> Entry(i + k - 1, out[k])]

Remove(q, k) == SubSeq(q, 1, k - 1) \o SubSeq(q, k + 1, Len(q))

\* the reactor thread is free to run engine steps and callbacks
Running == ~closed /\ ~exited /\ sleeping = None

\* an idle test that overlooks the pending requests
SpiderIdleNothingInFlight(q, fl) == fl = {}

\* the spider is idle: nothing pending, nothing in flight
SpiderIdle(q, fl) == q = <<>> /\ fl = {}

Init ==
    /\ queue = Numbered(1, start_requests)
    /\ inflight = {}
    /\ sleeping = None
    /\ total_profiles = 0
    /\ items = <<>>
    /\ giveup_warnings = 0
    /\ closed = FALSE
    /\ close_spider = FALSE
    /\ exited = FALSE
    /\ created = start_requests
    /\ submits = [i \in Ids |-> 0]
    /\ delays = [i \in Ids |-> <<>>]
    /\ fails = [i \in Ids |-> 0]
    /\ lastParse = None

\* the engine takes a pending request and hands it to the download handler
Dispatch(k) ==
    /\ Running
    /\ Cardinality(inflight) < CONCURRENT_REQUESTS
    /\ inflight' = inflight \cup {queue[k]}
    /\ queue' = Remove(queue, k)
    /\ submits' = [submits EXCEPT ![queue[k].id] = @ + 1]
    /\ UNCHANGED <<sleeping, total_profiles, items, giveup_warnings, closed,
                   close_spider, exited, created, delays, fails, lastParse>>

\* the response the download handler builds for a rendered document
Response(request, doc) == [url |-> request.url, doc |-> doc]

\* a search request's download succeeded with document doc: parse_search runs
\* and the engine enqueues what it yields
RunParseSearch(e, doc) ==
    /\ Running
    /\ e.request.callback = "parse_search"
    /\ LET out == parse_search(Response(e.request, doc))
       IN  /\ queue' = queue \o Numbered(Len(created) + 1, out)
           /\ created' = created \o out
    /\ inflight' = inflight \ {e}
    /\ UNCHANGED <<sleeping, total_profiles, items, giveup_warnings, closed,
                   close_spider, exited, submits, delays, fails>>

\* the same within a run, which creates at most MaxRequests requests
ParseSearch(e, doc) ==
    /\ Len(created) + Len(parse_search(Response(e.request, doc))) <= MaxRequests
    /\ RunParseSearch(e, doc)
    /\ UNCHANGED lastParse

\* a parse_profile that yields and counts a profile only when it has a name
RunParseProfileIfNamed(e, doc) ==
    /\ Running
    /\ e.request.callback = "parse_profile"
    /\ LET profile == parse_profile(Response(e.request, doc))
       IN  IF profile.name # <<>>
           THEN /\ total_profiles' = Scraped(total_profiles)
                /\ items' = Append(items, profile)
           ELSE UNCHANGED <<total_profiles, items>>
    /\ inflight' = inflight \ {e}
    /\ UNCHANGED <<queue, sleeping, giveup_warnings, closed, close_spider, exited,
                   created, submits, delays, fails>>

\* a profile request's download succeeded with document doc: parse_profile runs
RunParseProfile(e, doc) ==
    /\ Running
    /\ e.request.callback = "parse_profile"
    /\ total_profiles' = Scraped(total_profiles)
    /\ items' = Append(items, parse_profile(Response(e.request, doc)))
    /\ inflight' = inflight \ {e}
    /\ UNCHANGED <<queue, sleeping, giveup_warnings, closed, close_spider, exited,
                   created, submits, delays, fails>>

\* the same within a run
ParseProfile(e, doc) ==
    /\ RunParseProfile(e, doc)
    /\ UNCHANGED lastParse

\* a download failed: errback runs, up to its time.sleep or to its end
Errback(e) ==
    /\ Running
    /\ LET retries == retry_times(e.request)
       IN  IF ShouldRetry(retries)
           THEN /\ sleeping' = [entry |-> e, backoff |-> Backoff(retries)]
                /\ UNCHANGED giveup_warnings
           ELSE /\ giveup_warnings' = giveup_warnings + 1
                /\ UNCHANGED sleeping
    /\ inflight' = inflight \ {e}
    /\ fails' = [fails EXCEPT ![e.id] = @ + 1]
    /\ UNCHANGED <<queue, total_profiles, items, closed, close_spider, exited,
                   created, submits, delays, lastParse>>

\* time.sleep returns: errback yields the copy with retry_times + 1
ErrbackResume ==
    /\ ~closed /\ ~exited
    /\ sleeping # None
    /\ LET e == sleeping.entry
       IN  /\ queue' = Append(queue,
                  Entry(e.id, RetryCopy(e.request, retry_times(e.request))))
           /\ delays' = [delays EXCEPT ![e.id] = Append(@, sleeping.backoff)]
    /\ sleeping' = None
    /\ UNCHANGED <<inflight, total_profiles, items, giveup_warnings, closed,
                   close_spider, exited, created, submits, fails, lastParse>>

\* the engine found the spider idle and sent spider_closed: on_spider_closed runs
SpiderClosed ==
    /\ Running
    /\ SpiderIdle(queue, inflight)
    /\ closed' = TRUE
    /\ close_spider' = RaisesCloseSpider(total_profiles)
    /\ UNCHANGED <<queue, inflight, sleeping, total_profiles, items, giveup_warnings,
                   exited, created, submits, delays, fails, lastParse>>

\* SIGINT: the handler installed at import calls sys.exit(0)
Sigint ==
    /\ ~closed /\ ~exited
    /\ exited' = TRUE
    /\ UNCHANGED <<queue, inflight, sleeping, total_profiles, items, giveup_warnings,
                   closed, close_spider, created, submits, delays, fails, lastParse>>

Next ==
    \/ \E k \in 1..Len(queue) : Dispatch(k)
    \/ \E e \in inflight, doc \in RunSearchDocs : ParseSearch(e, doc)
    \/ \E e \in inflight, doc \in DetailDocs : ParseProfile(e, doc)
    \/ \E e \in inflight : Errback(e)
    \/ ErrbackResume
    \/ SpiderClosed
    \/ Sigint

Spec == Init /\ [][Next]_vars

\* a download in flight ends: with a document, or with a failure
Complete ==
    \/ \E e \in inflight, doc \in RunSearchDocs : ParseSearch(e, doc)
    \/ \E e \in inflight, doc \in DetailDocs : ParseProfile(e, doc)
    \/ \E e \in inflight : Errback(e)

(***************************************************************************)
(* The run from the point where the search page has been parsed: its detail *)
(* requests are pending, and the engine works them off. The engine          *)
(* dispatches while a slot is free, every download ends, time.sleep returns *)
(* and the engine closes an idle spider: these steps are fair.              *)
(***************************************************************************)
\* the search page that yields n detail requests and no advance request
DetailsPage(n) ==
    [entries |-> [k \in 1..n |-> <<[origin |-> "", path |-> "/in/a"]>>],
     next_button |-> "absent"]

DrainInit ==
    \E n \in 1..MaxPending :
        LET out == parse_search(Response(start_requests[1], DetailsPage(n)))
        IN  /\ queue = Numbered(Len(start_requests) + 1, out)
            /\ created = start_requests \o out
            /\ submits = [i \in Ids |-> IF i = 1 THEN 1 ELSE 0]
    /\ inflight = {}
    /\ sleeping = None
    /\ total_profiles = 0
    /\ items = <<>>
    /\ giveup_warnings = 0
    /\ closed = FALSE
    /\ close_spider = FALSE
    /\ exited = FALSE
    /\ delays = [i \in Ids |-> <<>>]
    /\ fails = [i \in Ids |-> 0]
    /\ lastParse = None

DrainStep ==
    \/ \E e \in inflight, doc \in DetailDocs : ParseProfile(e, doc)
    \/ \E e \in inflight : Errback(e)

DrainNext ==
    \/ \E k \in 1..Len(queue) : Dispatch(k)
    \/ DrainStep
    \/ ErrbackResume
    \/ SpiderClosed
    \/ Sigint

DrainSpec ==
    /\ DrainInit
    /\ [][DrainNext]_vars
    /\ WF_vars(\E k \in 1..Len(queue) : Dispatch(k))
    /\ WF_vars(DrainStep)
    /\ WF_vars(ErrbackResume)
    /\ WF_vars(SpiderClosed)

(***************************************************************************)
(* One search page: the seed request is in flight, the render backend       *)
(* answers with any search document, parse_search runs on it once.          *)
(***************************************************************************)
PageInit ==
    /\ queue = <<>>
    /\ inflight = {Numbered(1, start_requests)[1]}
    /\ sleeping = None
    /\ total_profiles = 0
    /\ items = <<>>
    /\ giveup_warnings = 0
    /\ closed = FALSE
    /\ close_spider = FALSE
    /\ exited = FALSE
    /\ created = start_requests
    /\ submits = [i \in Ids |-> IF i = 1 THEN 1 ELSE 0]
    /\ delays = [i \in Ids |-> <<>>]
    /\ fails = [i \in Ids |-> 0]
    /\ lastParse = None

PageParse(e, doc) ==
    /\ RunParseSearch(e, doc)
    /\ lastParse' = [response |-> Response(e.request, doc),
                     out |-> parse_search(Response(e.request, doc))]

PageNext == \E e \in inflight, doc \in SearchDocs : PageParse(e, doc)

PageSpec == PageInit /\ [][PageNext]_vars

(***************************************************************************)
(* One detail page: the profile request of a search page's only entry is in *)
(* flight, the render backend answers with any detail document,             *)
(* parse_profile runs on it once.                                           *)
(***************************************************************************)
ExtractInit ==
    /\ created = start_requests
                    \o parse_search(Response(start_requests[1], DetailsPage(1)))
    /\ queue = <<>>
    /\ inflight = {Entry(2, created[2])}
    /\ sleeping = None
    /\ total_profiles = 0
    /\ items = <<>>
    /\ giveup_warnings = 0
    /\ closed = FALSE
    /\ close_spider = FALSE
    /\ exited = FALSE
    /\ submits = [i \in Ids |-> IF i <= 2 THEN 1 ELSE 0]
    /\ delays = [i \in Ids |-> <<>>]
    /\ fails = [i \in Ids |-> 0]
    /\ lastParse = None

ExtractParse(e, doc) ==
    /\ RunParseProfile(e, doc)
    /\ lastParse' = [response |-> Response(e.request, doc),
                     out |-> <<parse_profile(Response(e.request, doc))>>]

ExtractNext == \E e \in inflight, doc \in ExtractDocs : ExtractParse(e, doc)

ExtractSpec == ExtractInit /\ [][ExtractNext]_vars

(***************************************************************************)
(* A run over a finite feed: the render backend answers a request with the  *)
(* page of the feed that the request's URL and interaction steps lead to,   *)
(* or with a failure, at any attempt.                                       *)
(***************************************************************************)
\* the feed behind search_url: page 1 has one result entry, every page but the
\* last has an enabled Next button, the last has none
Feed ==
    [p \in 1..FeedPages |->
        [entries |-> IF p = 1 THEN <<<<[origin |-> "", path |-> "/in/a"]>>>> ELSE <<>>,
         next_button |-> IF p < FeedPages THEN "enabled" ELSE "absent"]]

\* the click steps among a request's playwright_page_methods
Clicks(request) ==
    Len(SelectSeq(MetaGet(request.meta, "playwright_page_methods", <<>>),
                  LAMBDA step : step[1] = "click"))

\* what the backend renders for a search request: a fresh browser page loads
\* the request's URL, which shows page 1 of the feed, and each click on an
\* enabled Next button moves one page on; no match where a click cannot be done
FeedRender(request) ==
    LET n == Clicks(request)
    IN  IF \A p \in 1..n : p < FeedPages /\ Feed[p].next_button = "enabled"
        THEN <<Feed[n + 1]>>
        ELSE <<>>

\* a search request's download succeeded with the page the feed renders for it
FeedParse(e) ==
    /\ e.request.callback = "parse_search"
    /\ FeedRender(e.request) # <<>>
    /\ LET doc == Head(FeedRender(e.request))
       IN  /\ Len(created) + Len(parse_search(Response(e.request, doc)))
                  <= MaxFeedRequests
           /\ RunParseSearch(e, doc)
    /\ UNCHANGED lastParse

FeedNext ==
    \/ \E k \in 1..Len(queue) : Dispatch(k)
    \/ \E e \in inflight : FeedParse(e)
    \/ \E e \in inflight, doc \in DetailDocs : ParseProfile(e, doc)
    \/ \E e \in inflight : Errback(e)
    \/ ErrbackResume
    \/ SpiderClosed
    \/ Sigint

FeedSpec == Init /\ [][FeedNext]_vars

(***************************************************************************)
(* Properties.                                                              *)
(***************************************************************************)
\* the requests the engine holds: pending, in flight, or in errback's sleep
Live ==
    {queue[k] : k \in 1..Len(queue)} \cup inflight
        \cup (IF sleeping = None THEN {} ELSE {sleeping.entry})

LiveIds == {e.id : e \in Live}

\* the backoffs of the successive failures of one request
BackoffSchedule == <<1, 2, 4>>

\* C1: the retry decision depends on the attempt count alone: a failure at
\* attempt count n in {0,1,2} is retried after exactly 2^n (1, 2, 4 along the
\* failures of one request), a failure at any n >= 3 gives up and re-enqueues
\* nothing.
C1_RetryDecision ==
    /\ \A n \in 0..MaxAttemptCount :
        /\ ShouldRetry(n) <=> n \in {0, 1, 2}
        /\ ShouldRetry(n) => Backoff(n) = BackoffSchedule[n + 1]
    /\ \A e \in Live :
        /\ retry_times(e.request) = Len(delays[e.id])
        /\ retry_times(e.request) <= 3
    /\ sleeping # None =>
        /\ retry_times(sleeping.entry.request) \in {0, 1, 2}
        /\ sleeping.backoff = BackoffSchedule[retry_times(sleeping.entry.request) + 1]
        /\ fails[sleeping.entry.id] = retry_times(sleeping.entry.request) + 1
    /\ \A i \in Ids :
        /\ delays[i] = SubSeq(BackoffSchedule, 1, Len(delays[i]))
        /\ fails[i] <= 4
        /\ fails[i] = 4 => i \notin LiveIds /\ delays[i] = BackoffSchedule

\* a request failed at attempt counts 0, 1, 2 and 3: three backoffs, then given up
C1_Witness ==
    \E i \in Ids : fails[i] = 4 /\ delays[i] = <<1, 2, 4>> /\ i \notin LiveIds

\* C2 as claimed: after the 3rd failure of a request no 4th attempt is
\* scheduled, and no request is submitted to the render backend more than 3
\* times. A request is counted here with its retried copies only, which all
\* share its URL and page kind: the count by URL and page kind is at least this.
C2_AtMostThreeSubmits ==
    \A i \in Ids :
        /\ fails[i] >= 3 => i \notin LiveIds
        /\ submits[i] <= 3

\* C2 as amended: no request, counted with its retried copies, is submitted
\* more than 4 times (the first attempt and 3 retries): after its 4th failure
\* no 5th attempt is scheduled.
C2_AtMostFourSubmits ==
    \A i \in Ids :
        /\ submits[i] <= 4
        /\ submits[i] = 4 /\ fails[i] = 4 => i \notin LiveIds

\* a request was submitted 4 times and failed 4 times
C2_Witness == \E i \in Ids : submits[i] = 4 /\ fails[i] = 4 /\ giveup_warnings > 0

\* the requests of one kind among what a callback yielded, in yield order
OfKind(out, callback) == SelectSeq(out, LAMBDA r : r.callback = callback)

\* the engine's pending requests, without their numbers
Pending == [k \in 1..Len(queue) |-> queue[k].request]

\* the entries of a document that carry a link: an anchor with a non-empty href
Linked(doc) == {k \in 1..Len(doc.entries) :
                   doc.entries[k] # <<>> /\ doc.entries[k][1].path # ""}

\* C3 as claimed: a search page whose Next control is disabled or absent gives
\* no advance request, whatever its detail requests.
C3_NoAdvanceUnlessEnabled ==
    (lastParse # None /\ lastParse.response.doc.next_button # "enabled")
        => /\ OfKind(lastParse.out, "parse_search") = <<>>
           /\ OfKind(Pending, "parse_search") = <<>>

\* C4: a search page with an enabled Next control gives exactly one advance
\* request, for the same search URL, clicking Next and then waiting for the
\* result list, also when the page has no entry or no entry with a link.
C4_OneAdvanceWhenEnabled ==
    (lastParse # None /\ lastParse.response.doc.next_button = "enabled")
        => LET advance == OfKind(lastParse.out, "parse_search")
           IN  /\ Len(advance) = 1
               /\ advance[1].url = search_url
               /\ advance[1].errback = "errback"
               /\ advance[1].meta.playwright_page_methods =
                      <<<<"click", "button[aria-label='Next']">>,
                        <<"wait_for_selector", "ul.reusable-search__result-list">>>>
               /\ OfKind(Pending, "parse_search") = advance

\* an enabled Next control on a page whose entries carry no link: no detail
\* request, and the advance request is the only one enqueued
C4_Witness ==
    /\ lastParse # None
    /\ lastParse.response.doc.next_button = "enabled"
    /\ Len(lastParse.response.doc.entries) >= 1
    /\ Linked(lastParse.response.doc) = {}
    /\ Len(Pending) = 1
    /\ Pending[1].callback = "parse_search"

\* C5: the detail requests of a search page are as many as its entries with a
\* link, one per linked entry in document order; an entry without a link is
\* skipped with no failure counted, no retry and no effect on the entries after it.
C5_OneDetailPerLinkedEntry ==
    lastParse # None =>
        LET doc == lastParse.response.doc
            details == OfKind(lastParse.out, "parse_profile")
            paths == [k \in 1..Len(details) |-> details[k].url.path]
            linkedPaths ==
                LET links == SelectSeq(doc.entries,
                                 LAMBDA m : m # <<>> /\ m[1].path # "")
                IN  [k \in 1..Len(links) |-> links[k][1].path]
        IN  /\ Len(details) = Cardinality(Linked(doc))
            /\ paths = linkedPaths
            /\ \A k \in 1..Len(details) : details[k].url.origin # ""
            /\ OfKind(Pending, "parse_profile") = details
            /\ sleeping = None
            /\ giveup_warnings = 0
            /\ \A i \in Ids : fails[i] = 0

\* three entries, the middle one without a link, and an enabled Next control:
\* two detail requests and one advance request
C5_Witness ==
    /\ lastParse # None
    /\ Len(lastParse.response.doc.entries) = 3
    /\ Linked(lastParse.response.doc) = {1, 3}
    /\ lastParse.response.doc.next_button = "enabled"
    /\ Len(OfKind(lastParse.out, "parse_profile")) = 2
    /\ Len(OfKind(lastParse.out, "parse_search")) = 1

\* C6: a run that ends because nothing is pending and nothing is in flight is
\* reported as a failed run exactly when total_profiles is 0 at that point,
\* whether or not any download failed.
C6_EmptyRunReported ==
    closed =>
        /\ SpiderIdle(queue, inflight)
        /\ close_spider <=> (total_profiles = 0)
        /\ close_spider <=> (items = <<>>)

\* a run of one search page, no failure and no profile, reported as failed
C6_Witness ==
    /\ closed /\ close_spider
    /\ total_profiles = 0
    /\ Len(created) = 1
    /\ submits[1] = 1
    /\ \A i \in Ids : fails[i] = 0

\* the run of the end-to-end case: the seed page yielded two detail requests
\* and no advance request, and the three downloads succeeded at once
TwoProfilesRun ==
    /\ closed
    /\ Len(created) = 3
    /\ created[2].callback = "parse_profile"
    /\ created[3].callback = "parse_profile"
    /\ \A i \in Ids : fails[i] = 0

\* C7: under every interleaving total_profiles is the number of records handed
\* to the output; the run whose seed page yields two detail requests and no
\* advance request, all downloads succeeding, ends with 2 profiles and is not
\* reported as empty.
C7_ProfilesCounted ==
    /\ total_profiles = Len(items)
    /\ closed => total_profiles =
           Cardinality({i \in 1..Len(created) :
               created[i].callback = "parse_profile" /\ fails[i] < 4})
    /\ TwoProfilesRun => total_profiles = 2 /\ ~close_spider

\* the end-to-end case has run to its end
C7_Witness == TwoProfilesRun /\ total_profiles = 2 /\ Len(items) = 2

\* the counters the spider keeps: the attributes __init__ sets
SpiderCounters == [total_profiles |-> total_profiles]

\* C8 as claimed: once requests have exhausted their retries, the spider's
\* requests_failed_permanently counter is their number.
C8_FailedPermanentlyCounted ==
    LET exhausted == {i \in Ids : fails[i] = 4}
    IN  exhausted # {} =>
            /\ "requests_failed_permanently" \in DOMAIN SpiderCounters
            /\ SpiderCounters["requests_failed_permanently"] = Cardinality(exhausted)

\* request number i is pending in the engine's queue
InQueue(i) == \E k \in 1..Len(queue) : queue[k].id = i

\* some download has failed so far
SomeFailure == \E i \in Ids : fails[i] > 0

\* C9: no failure of one request ends the run: once a download has failed,
\* retried or given up, every request pending in the queue is still dispatched
\* to the download handler unless the run is cancelled, and on_spider_closed
\* evaluates the empty run only with nothing pending and nothing in flight.
C9_FailureDoesNotEndRun ==
    /\ \A i \in Ids :
        (SomeFailure /\ InQueue(i)) ~> (~InQueue(i) \/ exited)
    /\ [][SomeFailure /\ closed' => (closed \/ (queue = <<>> /\ inflight = {}))]_vars
    /\ [](SomeFailure /\ closed => queue = <<>> /\ inflight = {} /\ sleeping = None)

\* a request was given up while another request was pending, and the run went
\* on to scrape that one
C9_Witness ==
    /\ giveup_warnings > 0
    /\ total_profiles > 0
    /\ closed
    /\ \E i, j \in Ids : fails[i] = 4 /\ fails[j] = 0 /\ submits[j] = 1

\* C10 as claimed: while errback waits out the backoff of one request, another
\* pending request can be dispatched and the result of a download in flight
\* can be routed to its callback.
C10_BackoffDoesNotBlock ==
    (sleeping # None /\ ~closed /\ ~exited) =>
        /\ (queue # <<>> /\ Cardinality(inflight) < CONCURRENT_REQUESTS)
               => ENABLED (\E k \in 1..Len(queue) : Dispatch(k))
        /\ inflight # {} => ENABLED Complete

\* C11 as claimed: after the stop signal no further request is handed to the
\* download handler and the counters keep their values, and the stopped run
\* ends as a reported outcome: on_spider_closed has reported the count and
\* the empty run, or the run can still take a step towards that report.
C11_StopIsReported ==
    /\ [][exited => /\ submits' = submits
                    /\ total_profiles' = total_profiles
                    /\ items' = items]_vars
    /\ [](exited => closed \/ ENABLED Next)

\* the search requests whose download succeeded and which parse_search handled
SearchRenders ==
    {i \in 1..Len(created) :
        /\ created[i].callback = "parse_search"
        /\ i \notin LiveIds
        /\ submits[i] = fails[i] + 1}

\* C12 as claimed, in the form a finite run refutes: over a feed of FeedPages
\* result pages the pagination comes to an end, the search URL being rendered
\* at most once per page of the feed, whatever downloads fail in between.
C12_PaginationEnds == Cardinality(SearchRenders) <= FeedPages

\* sub occurs in text at some position
IsSubstring(sub, text) ==
    \E i \in 0..(Len(text) - Len(sub)) : SubSeq(text, i + 1, i + Len(sub)) = sub

\* the text a selector matched, the empty text without a match
TextOf(matches) == IF matches = <<>> THEN <<>> ELSE matches[1]

\* stripped is text without the whitespace around it
IsStripOf(stripped, text) ==
    /\ stripped # <<>> =>
           stripped[1] \notin Whitespace /\ stripped[Len(stripped)] \notin Whitespace
    /\ \E i \in 0..(Len(text) - Len(stripped)) :
           /\ SubSeq(text, i + 1, i + Len(stripped)) = stripped
           /\ \A k \in 1..Len(text) :
                  (k <= i \/ k > i + Len(stripped)) => text[k] \in Whitespace

\* the j-th smallest number of a set of numbers
Nth(S, j) == CHOOSE k \in S : Cardinality({m \in S : m < k}) = j - 1

\* the education entries of a document that mention France in the school
\* text or in the period text
MentionFrance(doc) ==
    {k \in 1..Len(doc.educations) :
        \/ IsSubstring(France, TextOf(doc.educations[k].school))
        \/ IsSubstring(France, TextOf(doc.educations[k].period))}

\* C13: an education entry is kept in the record if and only if "France" is a
\* substring of its school text or of its period text, whatever its degree
\* text; the kept entries appear in document order, each with its school,
\* degree and period text.
C13_EducationsInFrance ==
    (lastParse # None /\ lastParse.out # <<>>) =>
        LET edus == lastParse.response.doc.educations
            kept == lastParse.out[1].educations_in_france
            mention == MentionFrance(lastParse.response.doc)
        IN  /\ Len(kept) = Cardinality(mention)
            /\ \A j \in 1..Len(kept) :
                   LET edu == edus[Nth(mention, j)]
                   IN  /\ DOMAIN kept[j] = {"school", "degree", "period"}
                       /\ IsStripOf(kept[j].school, TextOf(edu.school))
                       /\ IsStripOf(kept[j].degree, TextOf(edu.degree))
                       /\ IsStripOf(kept[j].period, TextOf(edu.period))

\* two entries: the first mentions France in its degree text only and is
\* dropped, the second mentions it inside a word of its period text and is kept
C13_Witness ==
    /\ lastParse # None
    /\ lastParse.out # <<>>
    /\ LET edus == lastParse.response.doc.educations
       IN  /\ Len(edus) = 2
           /\ IsSubstring(France, TextOf(edus[1].degree))
           /\ MentionFrance(lastParse.response.doc) = {2}
           /\ edus[2].school = <<<<" ", "M", "I", "T", "\n">>>>
           /\ IsSubstring(France \o <<"s">>, TextOf(edus[2].period))
    /\ Len(lastParse.out[1].educations_in_france) = 1
    /\ lastParse.out[1].educations_in_france[1].school = <<"M", "I", "T">>

\* the text fields of the record, each read from the selector of the same name
TextFields == {"name", "headline", "location", "current_position"}

\* the text has a character that is not whitespace
HasText(text) == \E k \in 1..Len(text) : text[k] \notin Whitespace

\* C14: whatever selectors of a rendered detail page match nothing (name,
\* headline, location, current position, education entries, skills),
\* parse_profile runs to its end and yields one record: its profile_url is the
\* page's URL, a text field without a match is the empty string, a text field
\* with a match is the matched text without surrounding whitespace, the
\* educations and skills are empty lists without a match and the skills are
\* otherwise the matched texts, stripped, in order. The record of a page on
\* which nothing matches is yielded all the same.
C14_RecordOnPartialMarkup ==
    /\ lastParse = None =>
           \A e \in inflight, doc \in ExtractDocs : ENABLED ExtractParse(e, doc)
    /\ (lastParse # None /\ lastParse.out # <<>>) =>
           LET doc == lastParse.response.doc
               profile == lastParse.out[1]
           IN  /\ Len(lastParse.out) = 1
               /\ items = <<profile>>
               /\ total_profiles = 1
               /\ DOMAIN profile = TextFields \cup
                      {"educations_in_france", "skills", "profile_url"}
               /\ profile.profile_url = lastParse.response.url
               /\ profile.profile_url = created[2].url
               /\ profile.profile_url.origin # ""
               /\ \A f \in TextFields :
                      /\ doc[f] = <<>> => profile[f] = <<>>
                      /\ doc[f] # <<>> =>
                             /\ IsStripOf(profile[f], doc[f][1])
                             /\ HasText(doc[f][1]) => profile[f] # <<>>
               /\ doc.educations = <<>> => profile.educations_in_france = <<>>
               /\ Len(profile.skills) = Len(doc.skills)
               /\ \A k \in 1..Len(doc.skills) :
                      /\ IsStripOf(profile.skills[k], doc.skills[k])
                      /\ profile.skills[k] # <<>>

\* the page on which no selector matches gave a record that is empty but for
\* its URL, and the record was yielded and counted
C14_Witness ==
    /\ lastParse # None
    /\ lastParse.response.doc = NoAnchorsDoc
    /\ Len(items) = 1
    /\ \A f \in TextFields : items[1][f] = <<>>
    /\ items[1].educations_in_france = <<>>
    /\ items[1].skills = <<>>
    /\ items[1].profile_url = created[2].url
    /\ total_profiles = 1

\* a step in which the download of a request in flight succeeded and the
\* request's callback ran
Handled(callback) ==
    \E e \in inflight :
        /\ e.request.callback = callback
        /\ inflight' = inflight \ {e}
        /\ fails' = fails

IsRetryOf(b, a) ==
    /\ b.url = a.url
    /\ b.callback = a.callback
    /\ b.errback = a.errback
    /\ DOMAIN b.meta = DOMAIN a.meta \cup {"retry_times"}
    /\ \A k \in DOMAIN a.meta \ {"retry_times"} : b.meta[k] = a.meta[k]
    /\ b.meta["retry_times"] = MetaGet(a.meta, "retry_times", 0) + 1

\* C16: the request errback re-enqueues has the URL, the callback, the
\* errback and the meta (the interaction steps among it) of the failed
\* request, and differs from it in retry_times alone, which is the failed
\* request's plus one; the failed request and the request as it was created
\* stay as they were.
C16_RetryIsCopy ==
    /\ [][(sleeping # None /\ sleeping' = None) =>
              /\ Len(queue') = Len(queue) + 1
              /\ SubSeq(queue', 1, Len(queue)) = queue
              /\ queue'[Len(queue')].id = sleeping.entry.id
              /\ IsRetryOf(queue'[Len(queue')].request, sleeping.entry.request)
              /\ created' = created]_vars
    /\ [][sleeping' # None => sleeping' \in {sleeping} \cup
              {[entry |-> e, backoff |-> Backoff(retry_times(e.request))] :
                   e \in inflight}]_vars
    /\ [](\A e \in Live :
              LET made == created[e.id]
              IN  /\ e.request.url = made.url
                  /\ e.request.callback = made.callback
                  /\ e.request.errback = made.errback
                  /\ "retry_times" \notin DOMAIN made.meta
                  /\ DOMAIN made.meta \subseteq DOMAIN e.request.meta
                  /\ DOMAIN e.request.meta \subseteq DOMAIN made.meta \cup {"retry_times"}
                  /\ \A k \in DOMAIN made.meta : e.request.meta[k] = made.meta[k])

\* the advance request has failed twice: its second copy is pending with the
\* click and wait steps of the request parse_search created and attempt count 2
C16_Witness ==
    \E k \in 1..Len(queue) :
        /\ queue[k].request.callback = "parse_search"
        /\ retry_times(queue[k].request) = 2
        /\ queue[k].request.meta.playwright_page_methods =
               <<<<"click", "button[aria-label='Next']">>,
                 <<"wait_for_selector", "ul.reusable-search__result-list">>>>
        /\ fails[queue[k].id] = 2
        /\ "retry_times" \notin DOMAIN created[queue[k].id].meta

\* the positions of the requests of one kind among what a callback yielded
Positions(out, callback) == {k \in 1..Len(out) : out[k].callback = callback}

\* C17: of the requests a rendered search page gives rise to, every detail
\* request is yielded, and enqueued, before the advance request, and there is
\* at most one advance request.
C17_DetailsBeforeAdvance ==
    lastParse # None =>
        /\ Cardinality(Positions(lastParse.out, "parse_search")) <= 1
        /\ \A d \in Positions(lastParse.out, "parse_profile"),
              a \in Positions(lastParse.out, "parse_search") : d < a
        /\ Pending = lastParse.out
        /\ Cardinality(Positions(Pending, "parse_search")) <= 1
        /\ \A d \in Positions(Pending, "parse_profile"),
              a \in Positions(Pending, "parse_search") : d < a

\* a page with two linked entries and an enabled Next button: the two detail
\* requests are pending ahead of the advance request
C17_Witness ==
    /\ lastParse # None
    /\ Len(Pending) = 3
    /\ Positions(Pending, "parse_profile") = {1, 2}
    /\ Positions(Pending, "parse_search") = {3}
    /\ Len(lastParse.response.doc.entries) = 2

\* the page of the feed a search request renders
PageOf(request) == Clicks(request) + 1

\* the advance requests created so far: the search requests that click Next
AdvancesCreated == {i \in 1..Len(created) : Clicks(created[i]) > 0}

\* C18 as claimed, over the finite feed: no page of the feed gives rise to
\* more than one advance request, whatever was retried and whatever is in
\* flight: a page with a Next button is handled by parse_search at most once,
\* and the advance requests of the run are at most one per such page.
C18_OneAdvancePerPage ==
    LET paged == {p \in 1..FeedPages : Truthy(NextButton(Feed[p]))}
    IN  /\ \A p \in paged :
               Cardinality({i \in SearchRenders : PageOf(created[i]) = p}) <= 1
        /\ Cardinality(AdvancesCreated) <= Cardinality(paged)

\* the profile requests whose download succeeded and which parse_profile handled
ProfileRenders ==
    {i \in 1..Len(created) :
        /\ created[i].callback = "parse_profile"
        /\ i \notin LiveIds
        /\ submits[i] = fails[i] + 1}

\* C19: every detail page rendered successfully yields one record and adds
\* one to total_profiles, whatever the page holds: in every state
\* total_profiles and the number of records yielded are the number of detail
\* pages rendered successfully so far, and on_spider_closed reports the run as
\* empty if and only if no detail page was rendered successfully.
C19_CountsRenderedDetailPages ==
    /\ total_profiles = Cardinality(ProfileRenders)
    /\ Len(items) = Cardinality(ProfileRenders)
    /\ closed => (close_spider <=> ProfileRenders = {})

\* a run whose only profile came from a detail page on which no selector
\* matched, another detail request having been given up: not reported as empty
C19_Witness ==
    /\ closed
    /\ ~close_spider
    /\ Cardinality(ProfileRenders) = 1
    /\ items = <<parse_profile([url |-> created[2].url, doc |-> NoAnchorsDoc])>>
    /\ items[1].name = <<>>
    /\ items[1].skills = <<>>
    /\ \E i \in 1..Len(created) :
           created[i].callback = "parse_profile" /\ fails[i] = 4

====
